---- MODULE Spec2Model ----
(***************************************************************************)
(* State-machine model of the scrolling ticker compositor of               *)
(* led_sports_ticker/led_display.py: TextSegment, ScrollingText            *)
(* (set_content, get_visible_segments, step).                              *)
(*                                                                         *)
(* A text is a sequence of one-character strings, so that slicing, length  *)
(* and concatenation are computed and not assumed.                         *)
(***************************************************************************)
EXTENDS Integers, Sequences, FiniteSets, TLC

VARIABLES
    scroller,   \* the ScrollingText object: its fields, and its display's width
    call,       \* the last method call: its name and its arguments
    ret,        \* what the last call returned (or raised)
    steps,      \* step() calls since the last set_content / construction (saturating)
    made,       \* the last object a constructor was asked for, and what came of it
    fmt,        \* the last TickerRenderer.format_* call: its arguments and result
    replay,     \* the ReplayState object of the replay server
    now,        \* time.time(), in milliseconds
    rcall,      \* the last replay request: its handler and what it got
    recorder,   \* the NASCARRecorder object and the position of its recording loop
    ticker      \* the NASCARTicker / DemoTicker object and the position of its loop

scrollVars == <<scroller, call, ret, steps>>

replayVars == <<replay, now, rcall>>

appVars == <<recorder, ticker>>

vars == <<scroller, call, ret, steps, made, fmt, replay, now, rcall, recorder, ticker>>

---------------------------------------------------------------------------
(* Bounds of the model *)

\* most fragments in one content passed to set_content
MaxSegments == 2
\* display widths are 1..MaxWidth
MaxWidth == 3
\* requested widths are -MaxNegWidth..MaxReqWidth
MaxReqWidth == 7
MaxNegWidth == 2
\* the step counter stops counting here
MaxSteps == 8
\* ranks passed to format_position are 0..MaxRank
MaxRank == 12
\* flag codes passed to format_flag are -1..MaxFlag
MaxFlag == 10
\* a recording has 1..MaxFrames frames
MaxFrames == 3
\* the clock of the replay server advances TickMs milliseconds at a time
TickMs == 500
\* and stops after MaxTicks advances
MaxTicks == 8
\* metadata.get('interval_ms', 1000): milliseconds between two frames
DefaultIntervalMs == 1000
\* the recorder is fed until it holds MaxRecFrames frames
MaxRecFrames == 3
\* the recording loop sleeps at most MaxRecSleeps times
MaxRecSleeps == 3
\* NASCARRecorder(interval=1.0): milliseconds between two captures
RecIntervalMs == 1000
\* TickerConfig.scroll_speed = 0.08: milliseconds slept after each step
ScrollSpeedMs == 80
\* time.sleep(2) while no live data is available, in milliseconds
WaitMs == 2000
\* a ticker sleeps while less than MaxTickerSleeps scroll sleeps have passed
MaxTickerSleeps == 12

---------------------------------------------------------------------------
(* Python built-ins, as the code uses them *)

Max(a, b) == IF a >= b THEN a ELSE b

Min(a, b) == IF a <= b THEN a ELSE b

\* Python's a % b for b # 0: the result has the sign of b
PyMod(a, b) == IF b > 0 THEN a % b ELSE 0 - ((0 - a) % (0 - b))

\* Python's index normalisation in a slice of a sequence of length n
PySliceIndex(i, n) == IF i < 0 THEN Max(0, n + i) ELSE Min(i, n)

\* Python's text[lo:hi]
PySlice(text, lo, hi) ==
    LET a == PySliceIndex(lo, Len(text))
        b == PySliceIndex(hi, Len(text))
    IN  IF a < b THEN SubSeq(text, a + 1, b) ELSE <<>>

---------------------------------------------------------------------------
(* Color and TextSegment *)

Color_WHITE == <<255, 255, 255>>
Color_RED == <<255, 0, 0>>
Color_BLUE == <<0, 0, 255>>
Color_GRAY == <<128, 128, 128>>
Color_GOLD == <<255, 215, 0>>
Color_GREEN == <<0, 255, 0>>
Color_YELLOW == <<255, 255, 0>>
Color_ORANGE == <<255, 165, 0>>
Color_CYAN == <<0, 255, 255>>
Color_NASCAR_YELLOW == <<255, 200, 0>>

TextSegment(text, color, bold) == [text |-> text, color |-> color, bold |-> bold]

\* TextSegment(text, color): bold defaults to False
TextSegment2(text, color) == TextSegment(text, color, FALSE)

\* the gap marker get_visible_segments puts between the two copies of the content
Separator == TextSegment2(<<" ", " ", " ", "|", " ", " ", " ">>, Color_GRAY)

---------------------------------------------------------------------------
(* ScrollingText *)

\* ScrollingText.__init__(display, speed)
ScrollingText(display_width) ==
    [ display_width |-> display_width,
      position      |-> 0,
      content_width |-> 0,
      segments      |-> <<>>,
      total_len     |-> 0 ]

\* sum(len(s.text) for s in segments)
RECURSIVE SumLen(_)
SumLen(segments) ==
    IF segments = <<>> THEN 0
    ELSE Len(Head(segments).text) + SumLen(Tail(segments))

\* set_content without the cursor reset
set_content_keeps_position(self, segments) ==
    [self EXCEPT !.segments = segments,
                 !.total_len = SumLen(segments),
                 !.content_width = SumLen(segments)]

\* ScrollingText.set_content(segments)
set_content(self, segments) ==
    [self EXCEPT !.segments = segments,
                 !.total_len = SumLen(segments),
                 !.content_width = SumLen(segments),
                 !.position = 0]

\* step that never wraps
step_never_wraps(self) == [self EXCEPT !.position = self.position + 1]

\* step with the wrap bounded by the content alone, without the display's width
step_ignores_width(self) ==
    LET p == self.position + 1
    IN  [self EXCEPT !.position = IF p > self.total_len THEN 0 ELSE p]

\* step with the wrap taken one position early (>= for >)
step_wraps_at_period(self) ==
    LET p == self.position + 1
    IN  [self EXCEPT !.position =
            IF p >= self.total_len + self.display_width THEN 0 ELSE p]

\* ScrollingText.step()
step(self) ==
    LET p == self.position + 1
    IN  [self EXCEPT !.position =
            IF p > self.total_len + self.display_width THEN 0 ELSE p]

\* start with the cursor taken as it is
visible_start_unwrapped(self, width) == self.position

\* start = self.position % (self._total_len + width)
visible_start(self, width) == PyMod(self.position, self.total_len + width)

\* the timeline without its second copy of the content
all_segments_once(self) == self.segments \o <<Separator>>

\* all_segments = self._segments + [TextSegment("   |   ", GRAY)] + self._segments
all_segments(self) == self.segments \o <<Separator>> \o self.segments

\* the clipped fragment built without the source's emphasis
clip_drops_bold(seg, visible_text) == TextSegment2(visible_text, seg.color)

\* TextSegment(visible_text, seg.color, seg.bold)
clip(seg, visible_text) == TextSegment(visible_text, seg.color, seg.bold)

\* the end of the slice, not limited by the window
clip_end_unbounded(seg, seg_start, start, width) == Len(seg.text)

\* visible_end = min(len(seg.text), start + width - seg_start)
clip_end(seg, seg_start, start, width) ==
    Min(Len(seg.text), start + width - seg_start)

\* the start of the slice, taken from the fragment's first character
clip_start_zero(seg_start, start) == 0

\* visible_start = max(0, start - seg_start)
clip_start(seg_start, start) == Max(0, start - seg_start)

\* if visible_text: an empty str is false
truthy(text) == text # <<>>

\* the for loop of get_visible_segments, from all_segments[i] on
RECURSIVE visible_loop(_, _, _, _, _, _)
visible_loop(segs, i, current_pos, start, width, visible) ==
    IF i > Len(segs) THEN visible
    ELSE
        LET seg == segs[i]
            seg_start == current_pos
            seg_end == current_pos + Len(seg.text)
            visible_text == PySlice(seg.text,
                                    clip_start(seg_start, start),
                                    clip_end(seg, seg_start, start, width))
            appended ==
                IF seg_end > start /\ seg_start < start + width /\ truthy(visible_text)
                THEN Append(visible, clip(seg, visible_text))
                ELSE visible
        IN  IF seg_end > start + width
            THEN appended
            ELSE visible_loop(segs, i + 1, seg_end, start, width, appended)

Returned(value) == [kind |-> "value", value |-> value]

ReturnedNone == [kind |-> "None", value |-> <<>>]

Raised(exception) == [kind |-> exception, value |-> <<>>]

\* get_visible_segments without the early return for no content
get_visible_segments_unguarded(self, width) ==
    IF self.total_len + width = 0 THEN Raised("ZeroDivisionError")
    ELSE Returned(visible_loop(all_segments(self), 1, 0,
                               visible_start(self, width), width, <<>>))

\* ScrollingText.get_visible_segments(width): what it returns or raises
get_visible_segments(self, width) ==
    IF self.segments = <<>> THEN Returned(<<>>)
    ELSE IF self.total_len + width = 0 THEN Raised("ZeroDivisionError")
    ELSE Returned(visible_loop(all_segments(self), 1, 0,
                               visible_start(self, width), width, <<>>))

---------------------------------------------------------------------------
(* Inputs *)

\* fragments a caller may put into a content; one is empty, one is bold
Fragments ==
    { TextSegment2(<<"A", "B">>, Color_RED),
      TextSegment2(<<"C", "D", "E">>, Color_BLUE),
      TextSegment(<<"P", "1">>, Color_GOLD, TRUE),
      TextSegment2(<<>>, Color_WHITE) }

RECURSIVE SeqsUpTo(_, _)
SeqsUpTo(S, n) ==
    IF n = 0 THEN {<<>>}
    ELSE LET shorter == SeqsUpTo(S, n - 1)
         IN  shorter \cup {Append(s, x) : s \in shorter, x \in S}

Contents == SeqsUpTo(Fragments, MaxSegments)

DisplayWidths == 1..MaxWidth

ReqWidths == (0 - MaxNegWidth)..MaxReqWidth

NoCall == [name |-> "__init__", segments |-> <<>>, width |-> 0]

---------------------------------------------------------------------------
(* The state machine of the scroll engine *)

\* no constructor was called yet
NothingMade == [class |-> "None", raised |-> FALSE, object |-> <<>>]

\* no format_* method was called yet
NothingFormatted ==
    [ name |-> "None", pos |-> 0, delta |-> 0, laps_completed |-> 0,
      leader_laps |-> 0, flag_state |-> 0, out |-> <<>> ]

\* no replay server runs: ReplayRequestHandler.replay_state is None
NoReplay ==
    [ frames |-> <<>>, current_frame |-> 0, playback_speed |-> 1,
      is_playing |-> FALSE, is_paused |-> FALSE, loop |-> TRUE,
      last_frame_time |-> 0 ]

NoRequest == [name |-> "None", kind |-> "None", status |-> "None", frame |-> <<>>]

\* no recorder was constructed
NoRecorder ==
    [ pc |-> "None", running |-> FALSE, frames |-> <<>>, metadata |-> <<>>,
      start_time |-> 0, frame_count |-> 0, max_frames |-> <<>>,
      duration |-> <<>>, start |-> 0, ret |-> <<>>, saved |-> "None" ]

\* no ticker was constructed
NoTicker ==
    [ pc |-> "None", mode |-> "None", running |-> FALSE, width |-> 0,
      refresh_rate |-> 0, last_data |-> <<>>, last_refresh |-> 0,
      data |-> <<>>, remaining |-> 0, k |-> 0, shown |-> <<>>,
      since_refresh |-> 0, called |-> FALSE ]

\* neither the recorder nor a ticker is in use
AppIdle ==
    /\ recorder = NoRecorder
    /\ ticker = NoTicker

\* the renderer, the constructors and the replay server are not in use
RestIdle ==
    /\ AppIdle
    /\ made = NothingMade
    /\ fmt = NothingFormatted
    /\ replay = NoReplay
    /\ now = 0
    /\ rcall = NoRequest

Init ==
    /\ \E w \in DisplayWidths : scroller = ScrollingText(w)
    /\ call = NoCall
    /\ ret = ReturnedNone
    /\ steps = 0
    /\ RestIdle

SetContent ==
    \E segments \in Contents :
        /\ scroller' = set_content(scroller, segments)
        /\ call' = [name |-> "set_content", segments |-> segments, width |-> 0]
        /\ ret' = ReturnedNone
        /\ steps' = 0
        /\ UNCHANGED <<made, fmt, replayVars, appVars>>

Step ==
    /\ scroller' = step(scroller)
    /\ call' = [name |-> "step", segments |-> <<>>, width |-> 0]
    /\ ret' = ReturnedNone
    /\ steps' = Min(steps + 1, MaxSteps)
    /\ UNCHANGED <<made, fmt, replayVars, appVars>>

\* a window query that also moves the cursor on
GetVisibleSegments_moves_cursor ==
    \E width \in ReqWidths :
        /\ ret' = get_visible_segments(scroller, width)
        /\ call' = [name |-> "get_visible_segments", segments |-> <<>>, width |-> width]
        /\ scroller' = step(scroller)
        /\ UNCHANGED <<steps, made, fmt, replayVars, appVars>>

GetVisibleSegments ==
    \E width \in ReqWidths :
        /\ ret' = get_visible_segments(scroller, width)
        /\ call' = [name |-> "get_visible_segments", segments |-> <<>>, width |-> width]
        /\ UNCHANGED <<scroller, steps>>
        /\ UNCHANGED <<made, fmt, replayVars, appVars>>

Next ==
    \/ SetContent
    \/ Step
    \/ GetVisibleSegments

Spec == Init /\ [][Next]_vars

---------------------------------------------------------------------------
(* Construction of fragments, displays and scroll engines *)

\* LEDDisplay.__init__(width, height)
LEDDisplay(width, height) ==
    [width |-> width, height |-> height, scroll_position |-> 0, scroll_speed |-> 1]

\* what a constructor call gives: the class's __init__ raises nothing
Constructed(class, object) == [class |-> class, raised |-> FALSE, object |-> object]

\* color channels a caller may pass: in range, and just outside it
Channels == {0 - 1, 0, 255, 256}

CtorTexts == {<<>>, <<"A">>}

\* widths a caller may pass to a display: negative ones too
CtorWidths == (0 - MaxNegWidth)..MaxWidth

\* the scroll engine is not in use
ScrollIdle ==
    /\ scroller = ScrollingText(MaxWidth)
    /\ call = NoCall
    /\ ret = ReturnedNone
    /\ steps = 0

InitConstruct ==
    /\ ScrollIdle
    /\ RestIdle

NewTextSegment ==
    \E text \in CtorTexts, r \in Channels, g \in Channels, b \in Channels,
       bold \in BOOLEAN :
        /\ made' = Constructed("TextSegment", TextSegment(text, <<r, g, b>>, bold))
        /\ UNCHANGED <<scrollVars, fmt, replayVars, appVars>>

NewLEDDisplay ==
    \E width \in CtorWidths, height \in {1, 32} :
        /\ made' = Constructed("LEDDisplay", LEDDisplay(width, height))
        /\ UNCHANGED <<scrollVars, fmt, replayVars, appVars>>

NewScrollingText ==
    \E width \in CtorWidths :
        /\ made' = Constructed("ScrollingText", ScrollingText(width))
        /\ UNCHANGED <<scrollVars, fmt, replayVars, appVars>>

NextConstruct ==
    \/ NewTextSegment
    \/ NewLEDDisplay
    \/ NewScrollingText

SpecConstruct == InitConstruct /\ [][NextConstruct]_vars

---------------------------------------------------------------------------
(* TickerRenderer: the formatting rules *)

\* str(d) for one decimal digit
DigitChar(d) == <<"0", "1", "2", "3", "4", "5", "6", "7", "8", "9">>[d + 1]

\* str(n) for n >= 0
RECURSIVE Digits(_)
Digits(n) ==
    IF n < 10 THEN <<DigitChar(n)>>
    ELSE Append(Digits(n \div 10), DigitChar(n % 10))

\* f"{n}" for an int
StrInt(n) == IF n < 0 THEN <<"-">> \o Digits(0 - n) ELSE Digits(n)

RECURSIVE Pow10(_)
Pow10(n) == IF n = 0 THEN 1 ELSE 10 * Pow10(n - 1)

\* n as exactly width digits, zero-filled on the left
RECURSIVE ZeroFill(_, _)
ZeroFill(n, width) ==
    IF width = 0 THEN <<>>
    ELSE Append(ZeroFill(n \div 10, width - 1), DigitChar(n % 10))

\* f"{x:.<decimals>f}" cutting the digits off instead of rounding
format_fixed_truncates(milli, decimals) ==
    LET mag == IF milli < 0 THEN 0 - milli ELSE milli
        units == mag \div Pow10(3 - decimals)
    IN  (IF milli < 0 THEN <<"-">> ELSE <<>>)
        \o Digits(units \div Pow10(decimals)) \o <<".">>
        \o ZeroFill(units % Pow10(decimals), decimals)

\* f"{x:.<decimals>f}" for the float x = milli / 1000, decimals in 1..3: the
\* nearest decimal, a tie going to the even digit.  (A tie is decided on the
\* float's binary value; of the ties only those the float holds exactly, the
\* multiples of 0.125, are drawn as inputs.)
format_fixed(milli, decimals) ==
    LET mag == IF milli < 0 THEN 0 - milli ELSE milli
        scale == Pow10(3 - decimals)
        q == mag \div scale
        r == mag % scale
        units == IF 2 * r > scale \/ (2 * r = scale /\ q % 2 = 1)
                 THEN q + 1 ELSE q
    IN  (IF milli < 0 THEN <<"-">> ELSE <<>>)
        \o Digits(units \div Pow10(decimals)) \o <<".">>
        \o ZeroFill(units % Pow10(decimals), decimals)

\* format_position with the second band ending one rank early (< for <=)
format_position_band_off(pos) ==
    IF pos = 1 THEN TextSegment(<<"P">> \o StrInt(pos), Color_GOLD, TRUE)
    ELSE IF pos < 3 THEN TextSegment(<<"P">> \o StrInt(pos), Color_GREEN, TRUE)
    ELSE IF pos <= 10 THEN TextSegment2(<<"P">> \o StrInt(pos), Color_WHITE)
    ELSE TextSegment2(<<"P">> \o StrInt(pos), Color_GRAY)

\* TickerRenderer.format_position(pos)
format_position(pos) ==
    IF pos = 1 THEN TextSegment(<<"P">> \o StrInt(pos), Color_GOLD, TRUE)
    ELSE IF pos <= 3 THEN TextSegment(<<"P">> \o StrInt(pos), Color_GREEN, TRUE)
    ELSE IF pos <= 10 THEN TextSegment2(<<"P">> \o StrInt(pos), Color_WHITE)
    ELSE TextSegment2(<<"P">> \o StrInt(pos), Color_GRAY)

\* the numeric branches of format_gap; delta is in thousandths of a second
format_gap_numeric(delta) ==
    IF delta < 1000
    THEN TextSegment2(<<"+">> \o format_fixed(delta, 3), Color_GREEN)
    ELSE IF delta < 5000
    THEN TextSegment2(<<"+">> \o format_fixed(delta, 2), Color_YELLOW)
    ELSE TextSegment2(<<"+">> \o format_fixed(delta, 1), Color_ORANGE)

\* format_gap with the lapped-car test tried last
format_gap_numeric_first(delta, laps_completed, leader_laps) ==
    IF delta = 0
    THEN TextSegment(<<"L", "E", "A", "D", "E", "R">>, Color_GOLD, TRUE)
    ELSE IF delta > 0 \/ laps_completed >= leader_laps
    THEN format_gap_numeric(delta)
    ELSE TextSegment2(<<"-">> \o StrInt(leader_laps - laps_completed) \o <<"L">>,
                      Color_RED)

\* TickerRenderer.format_gap(delta, laps_completed, leader_laps)
format_gap(delta, laps_completed, leader_laps) ==
    IF delta = 0
    THEN TextSegment(<<"L", "E", "A", "D", "E", "R">>, Color_GOLD, TRUE)
    ELSE IF laps_completed < leader_laps
    THEN TextSegment2(<<"-">> \o StrInt(leader_laps - laps_completed) \o <<"L">>,
                      Color_RED)
    ELSE format_gap_numeric(delta)

\* flag_info.get(flag_state, ("", WHITE)), as <<text, color>>
flag_info(flag_state) ==
    CASE flag_state = 0 -> << <<>>, Color_WHITE >>
      [] flag_state = 1 -> << <<"G", "R", "E", "E", "N">>, Color_GREEN >>
      [] flag_state = 2 ->
            << <<"C", "A", "U", "T", "I", "O", "N">>, Color_NASCAR_YELLOW >>
      [] flag_state = 3 ->
            << <<"R", "E", "D", " ", "F", "L", "A", "G">>, Color_RED >>
      [] flag_state = 4 ->
            << <<"W", "H", "I", "T", "E", " ", "F", "L", "A", "G">>, Color_WHITE >>
      [] flag_state = 5 ->
            << <<"C", "H", "E", "C", "K", "E", "R", "E", "D">>, Color_WHITE >>
      [] flag_state = 8 ->
            << <<"H", "O", "T", " ", "T", "R", "A", "C", "K">>, Color_ORANGE >>
      [] flag_state = 9 ->
            << <<"C", "O", "L", "D", " ", "T", "R", "A", "C", "K">>, Color_CYAN >>
      [] OTHER -> << <<>>, Color_WHITE >>

\* format_flag without the early return for a code that has no label
format_flag_always_brackets(flag_state) ==
    << TextSegment2(<<" ", "[">>, Color_GRAY),
       TextSegment(flag_info(flag_state)[1], flag_info(flag_state)[2], TRUE),
       TextSegment2(<<"]", " ">>, Color_GRAY) >>

\* TickerRenderer.format_flag(flag_state)
format_flag(flag_state) ==
    IF ~truthy(flag_info(flag_state)[1]) THEN <<>>
    ELSE << TextSegment2(<<" ", "[">>, Color_GRAY),
            TextSegment(flag_info(flag_state)[1], flag_info(flag_state)[2], TRUE),
            TextSegment2(<<"]", " ">>, Color_GRAY) >>

Ranks == 0..MaxRank

\* lap counts passed to format_gap
LapCounts == {0, 1, 10, 11, 12}

FlagCodes == (0 - 1)..MaxFlag

\* gaps to the leader, in thousandths of a second
Deltas ==
    {0 - 500, 0, 1, 500, 999, 1000, 1125, 2500, 4994, 4999, 5000, 5049, 5250,
     12345}

Formatted(name, pos, delta, laps_completed, leader_laps, flag_state, out) ==
    [ name |-> name, pos |-> pos, delta |-> delta,
      laps_completed |-> laps_completed, leader_laps |-> leader_laps,
      flag_state |-> flag_state, out |-> out ]

InitFormat ==
    /\ ScrollIdle
    /\ RestIdle

FormatPosition ==
    \E pos \in Ranks :
        /\ fmt' = Formatted("format_position", pos, 0, 0, 0, 0,
                            <<format_position(pos)>>)
        /\ UNCHANGED <<scrollVars, made, replayVars, appVars>>

FormatGap ==
    \E delta \in Deltas, laps_completed \in LapCounts, leader_laps \in LapCounts :
        /\ fmt' = Formatted("format_gap", 0, delta, laps_completed, leader_laps, 0,
                            <<format_gap(delta, laps_completed, leader_laps)>>)
        /\ UNCHANGED <<scrollVars, made, replayVars, appVars>>

FormatFlag ==
    \E flag_state \in FlagCodes :
        /\ fmt' = Formatted("format_flag", 0, 0, 0, 0, flag_state,
                            format_flag(flag_state))
        /\ UNCHANGED <<scrollVars, made, replayVars, appVars>>

NextFormat ==
    \/ FormatPosition
    \/ FormatGap
    \/ FormatFlag

SpecFormat == InitFormat /\ [][NextFormat]_vars

---------------------------------------------------------------------------
(* ReplayState and the replay server's request handlers.  Times are in
   milliseconds; playback_speed stays at the 1.0 of __init__. *)

\* the frames of a recording: frame i carries lap i
Recording(n) == [i \in 1..n |-> [live_feed |-> [lap_number |-> i]]]

\* ReplayState.__init__ after _load_recording
ReplayState(frames) ==
    [ frames |-> frames, current_frame |-> 0, playback_speed |-> 1,
      is_playing |-> FALSE, is_paused |-> FALSE, loop |-> TRUE,
      last_frame_time |-> 0 ]

\* ReplayState.start(), called at time t
ReplayState_start(self, t) ==
    [self EXCEPT !.is_playing = TRUE, !.is_paused = FALSE, !.last_frame_time = t]

\* ReplayState.pause()
ReplayState_pause(self) == [self EXCEPT !.is_paused = TRUE]

\* ReplayState.resume(), called at time t
ReplayState_resume(self, t) ==
    [self EXCEPT !.is_paused = FALSE, !.last_frame_time = t]

\* ReplayState.stop()
ReplayState_stop(self) == [self EXCEPT !.is_playing = FALSE]

\* seek taking the frame number as it comes
seek_unclamped(self, frame_number, t) ==
    [self EXCEPT !.current_frame = frame_number, !.last_frame_time = t]

\* ReplayState.seek(frame_number), called at time t
ReplayState_seek(self, frame_number, t) ==
    [self EXCEPT !.current_frame = Max(0, Min(frame_number, Len(self.frames) - 1)),
                 !.last_frame_time = t]

\* int(a / b) for b > 0: the quotient cut towards zero
TruncDiv(a, b) == IF a >= 0 THEN a \div b ELSE 0 - ((0 - a) \div b)

\* ReplayState.seek_percent(percent), called at time t
ReplayState_seek_percent(self, percent, t) ==
    ReplayState_seek(self, TruncDiv(percent * Len(self.frames), 100), t)

\* the indices (0-based) of the frames at or after a lap
AtOrAfterLap(self, lap) ==
    {i \in 0..(Len(self.frames) - 1) : self.frames[i + 1].live_feed.lap_number >= lap}

\* ReplayState.seek_lap(lap), called at time t: the state it leaves (the
\* call returns whether AtOrAfterLap is non-empty)
ReplayState_seek_lap(self, lap, t) ==
    IF AtOrAfterLap(self, lap) = {} THEN self
    ELSE ReplayState_seek(self,
             CHOOSE i \in AtOrAfterLap(self, lap) :
                 \A j \in AtOrAfterLap(self, lap) : i <= j,
             t)

\* int(elapsed / interval_sec) in get_current_frame
frames_to_advance(self, t) ==
    ((t - self.last_frame_time) * self.playback_speed) \div DefaultIntervalMs

\* the end of the recording without stopping playback
end_of_recording_keeps_playing(self) ==
    IF self.loop THEN [self EXCEPT !.current_frame = 0]
    ELSE [self EXCEPT !.current_frame = Len(self.frames) - 1]

\* get_current_frame: "Handle loop or stop at end"
end_of_recording(self) ==
    IF self.loop THEN [self EXCEPT !.current_frame = 0]
    ELSE [self EXCEPT !.current_frame = Len(self.frames) - 1,
                      !.is_playing = FALSE]

\* get_current_frame: "Advance frames based on elapsed time"
advance(self, t) ==
    IF frames_to_advance(self, t) > 0
    THEN LET moved == [self EXCEPT
                          !.current_frame = @ + frames_to_advance(self, t),
                          !.last_frame_time = t]
         IN  IF moved.current_frame >= Len(moved.frames)
             THEN end_of_recording(moved) ELSE moved
    ELSE self

\* get_current_frame advancing also while paused
get_current_frame_ignores_pause(self, t) ==
    IF self.frames = <<>> \/ ~self.is_playing
    THEN [self |-> self, ret |-> ReturnedNone]
    ELSE [self |-> advance(self, t),
          ret |-> Returned(advance(self, t).frames[
                               advance(self, t).current_frame + 1])]

\* ReplayState.get_current_frame() called at time t: the state it leaves and
\* what it returns
ReplayState_get_current_frame(self, t) ==
    IF self.frames = <<>> \/ ~self.is_playing
    THEN [self |-> self, ret |-> ReturnedNone]
    ELSE IF self.is_paused
    THEN [self |-> self, ret |-> Returned(self.frames[self.current_frame + 1])]
    ELSE [self |-> advance(self, t),
          ret |-> Returned(advance(self, t).frames[
                               advance(self, t).current_frame + 1])]

\* _handle_play: resume() when paused, start() otherwise
play(self, t) ==
    IF self.is_paused THEN ReplayState_resume(self, t)
    ELSE ReplayState_start(self, t)

\* what a handler sent: _send_json (kind "json") or _send_error ("error")
Response(name, kind, status, frame) ==
    [name |-> name, kind |-> kind, status |-> status, frame |-> frame]

\* frame numbers a client may ask /replay/seek for
SeekFrames == (0 - 1)..MaxFrames

\* percentages a client may ask /replay/seek for (each a float holds exactly
\* once divided by 100)
SeekPercents == {0 - 50, 0, 50, 100, 150}

\* laps a client may ask /replay/seek for
SeekLaps == 0..(MaxFrames + 1)

\* main(): the recording is loaded, --no-loop applied, and ReplayServer.start
\* starts playback unless auto_play is off
InitReplay ==
    /\ ScrollIdle
    /\ made = NothingMade
    /\ fmt = NothingFormatted
    /\ now = TickMs
    /\ rcall = NoRequest
    /\ AppIdle
    /\ \E n \in 1..MaxFrames, loop \in BOOLEAN, auto_play \in BOOLEAN :
          replay = IF auto_play
                   THEN ReplayState_start(
                            [ReplayState(Recording(n)) EXCEPT !.loop = loop], now)
                   ELSE [ReplayState(Recording(n)) EXCEPT !.loop = loop]

\* the clock advances between two requests
Tick ==
    /\ now < TickMs * (MaxTicks + 1)
    /\ now' = now + TickMs
    /\ UNCHANGED <<scrollVars, made, fmt, replay, rcall, appVars>>

\* GET /live/feeds/live-feed.json
HandleLiveFeed ==
    /\ replay' = ReplayState_get_current_frame(replay, now).self
    /\ rcall' = IF ReplayState_get_current_frame(replay, now).ret.kind = "value"
                THEN Response("_handle_live_feed", "json", "live_feed",
                         <<ReplayState_get_current_frame(replay, now).ret.value>>)
                ELSE Response("_handle_live_feed", "error", "No data available",
                              <<>>)
    /\ UNCHANGED <<scrollVars, made, fmt, now, appVars>>

\* GET /replay/play
HandlePlay ==
    /\ replay' = play(replay, now)
    /\ rcall' = Response("_handle_play", "json", "playing", <<>>)
    /\ UNCHANGED <<scrollVars, made, fmt, now, appVars>>

\* GET /replay/pause
HandlePause ==
    /\ replay' = ReplayState_pause(replay)
    /\ rcall' = Response("_handle_pause", "json", "paused", <<>>)
    /\ UNCHANGED <<scrollVars, made, fmt, now, appVars>>

\* GET /replay/stop
HandleStop ==
    /\ replay' = ReplayState_seek(ReplayState_stop(replay), 0, now)
    /\ rcall' = Response("_handle_stop", "json", "stopped", <<>>)
    /\ UNCHANGED <<scrollVars, made, fmt, now, appVars>>

\* GET /replay/seek?frame=<frame>
HandleSeek ==
    \E frame \in SeekFrames :
        /\ replay' = ReplayState_seek(replay, frame, now)
        /\ rcall' = Response("_handle_seek", "json", "seeked", <<>>)
        /\ UNCHANGED <<scrollVars, made, fmt, now, appVars>>

\* GET /replay/seek?percent=<percent>
HandleSeekPercent ==
    \E percent \in SeekPercents :
        /\ replay' = ReplayState_seek_percent(replay, percent, now)
        /\ rcall' = Response("_handle_seek", "json", "seeked", <<>>)
        /\ UNCHANGED <<scrollVars, made, fmt, now, appVars>>

\* GET /replay/seek?lap=<lap>
HandleSeekLap ==
    \E lap \in SeekLaps :
        /\ replay' = ReplayState_seek_lap(replay, lap, now)
        /\ rcall' = IF AtOrAfterLap(replay, lap) # {}
                    THEN Response("_handle_seek", "json", "seeked", <<>>)
                    ELSE Response("_handle_seek", "error", "Lap not found", <<>>)
        /\ UNCHANGED <<scrollVars, made, fmt, now, appVars>>

\* GET /replay/loop, with ?value=true, ?value=false or no value (toggle)
HandleLoop ==
    \E value \in {"", "true", "false"} :
        /\ replay' = [replay EXCEPT
                         !.loop = IF value = "" THEN ~replay.loop
                                  ELSE value = "true"]
        /\ rcall' = Response("_handle_loop", "json", "loop_set", <<>>)
        /\ UNCHANGED <<scrollVars, made, fmt, now, appVars>>

NextReplay ==
    \/ Tick
    \/ HandleLiveFeed
    \/ HandlePlay
    \/ HandlePause
    \/ HandleStop
    \/ HandleSeek
    \/ HandleSeekPercent
    \/ HandleSeekLap
    \/ HandleLoop

SpecReplay == InitReplay /\ [][NextReplay]_vars

---------------------------------------------------------------------------
(* NASCARRecorder: record_frame, save_recording and the loop of
   start_recording.  An optional value is <<>> (None) or <<v>>. *)

\* NASCARRecorder.__init__
NASCARRecorder ==
    [ pc |-> "idle", running |-> FALSE, frames |-> <<>>, metadata |-> <<>>,
      start_time |-> 0, frame_count |-> 0, max_frames |-> <<>>,
      duration |-> <<>>, start |-> 0, ret |-> <<>>, saved |-> "None" ]

\* what the live-feed endpoint may give: nothing (None or an empty object),
\* or a feed
FetchResults == {<<>>, <<[lap_number |-> 1]>>}

\* NASCARRecorder._init_metadata(live_feed)
init_metadata(live_feed) ==
    [ interval_ms |-> RecIntervalMs, total_frames |-> 0,
      lap_number |-> live_feed.lap_number ]

\* record_frame numbering its frames from 1
record_frame_counts_first(self, fetched, t) ==
    IF fetched = <<>> THEN [self EXCEPT !.ret = <<>>]
    ELSE LET first == self.metadata = <<>>
             frame == [ timestamp |-> t,
                        frame_number |-> self.frame_count + 1,
                        elapsed_ms |-> IF first THEN 0 ELSE t - self.start_time,
                        live_feed |-> fetched[1] ]
         IN  [self EXCEPT
                 !.metadata = IF first THEN <<init_metadata(fetched[1])>> ELSE @,
                 !.start_time = IF first THEN t ELSE @,
                 !.frames = Append(@, frame),
                 !.frame_count = @ + 1,
                 !.ret = <<frame>>]

\* NASCARRecorder.record_frame() at time t, the live-feed endpoint giving
\* `fetched`: the state it leaves, its return value in ret
record_frame(self, fetched, t) ==
    IF fetched = <<>> THEN [self EXCEPT !.ret = <<>>]
    ELSE LET first == self.metadata = <<>>
             frame == [ timestamp |-> t,
                        frame_number |-> self.frame_count,
                        elapsed_ms |-> IF first THEN 0 ELSE t - self.start_time,
                        live_feed |-> fetched[1] ]
         IN  [self EXCEPT
                 !.metadata = IF first THEN <<init_metadata(fetched[1])>> ELSE @,
                 !.start_time = IF first THEN t ELSE @,
                 !.frames = Append(@, frame),
                 !.frame_count = @ + 1,
                 !.ret = <<frame>>]

\* the truth value of an optional number: None and 0 are false
truthy_number(opt) == opt # <<>> /\ opt[1] # 0

\* if max_frames and self.frame_count >= max_frames
frame_limit_reached(self) ==
    truthy_number(self.max_frames) /\ self.frame_count >= self.max_frames[1]

\* if duration and (time.time() - start) >= duration
duration_reached(self, t) ==
    truthy_number(self.duration) /\ t - self.start >= self.duration[1]

\* values of start_recording's max_frames: None, or a number
MaxFramesArgs == {<<>>} \cup {<<n>> : n \in (0 - 1)..(MaxRecFrames - 1)}

\* values of start_recording's duration (milliseconds): None, or a number
DurationArgs == {<<>>, <<0>>, <<2 * RecIntervalMs>>}

InitRecorder ==
    /\ ScrollIdle
    /\ made = NothingMade
    /\ fmt = NothingFormatted
    /\ replay = NoReplay
    /\ rcall = NoRequest
    /\ now = 0
    /\ recorder = NASCARRecorder
    /\ ticker = NoTicker

\* start_recording(duration, max_frames), up to its loop
StartRecording ==
    /\ recorder.pc = "idle"
    /\ \E max_frames \in MaxFramesArgs, duration \in DurationArgs :
          recorder' = [recorder EXCEPT
                          !.running = TRUE, !.frames = <<>>, !.metadata = <<>>,
                          !.frame_count = 0, !.max_frames = max_frames,
                          !.duration = duration, !.start = now,
                          !.pc = "record"]
    /\ UNCHANGED <<scrollVars, made, fmt, replayVars, ticker>>

\* the loop of start_recording: "while self.running: frame = self.record_frame()"
LoopRecordFrame ==
    /\ recorder.pc = "record"
    /\ IF recorder.running
       THEN /\ Len(recorder.frames) < MaxRecFrames
            /\ \E fetched \in FetchResults :
                  recorder' = [record_frame(recorder, fetched, now) EXCEPT
                                  !.pc = "check"]
       ELSE recorder' = [recorder EXCEPT !.pc = "idle"]
    /\ UNCHANGED <<scrollVars, made, fmt, replayVars, ticker>>

\* the loop of start_recording: "Check stop conditions", then time.sleep
LoopCheck ==
    /\ recorder.pc = "check"
    /\ IF duration_reached(recorder, now) \/ frame_limit_reached(recorder)
       THEN /\ recorder' = [recorder EXCEPT !.running = FALSE, !.pc = "idle"]
            /\ now' = now
       ELSE /\ now < MaxRecSleeps * RecIntervalMs
            /\ recorder' = [recorder EXCEPT !.pc = "record"]
            /\ now' = now + RecIntervalMs
    /\ UNCHANGED <<scrollVars, made, fmt, replay, rcall, ticker>>

\* stop_recording(), called by the SIGINT handler at any moment
StopRecording ==
    /\ recorder.pc \in {"record", "check"}
    /\ recorder' = [recorder EXCEPT !.running = FALSE]
    /\ UNCHANGED <<scrollVars, made, fmt, replayVars, ticker>>

\* record_frame() called on its own
RecordFrame ==
    /\ recorder.pc = "idle"
    /\ Len(recorder.frames) < MaxRecFrames
    /\ \E fetched \in FetchResults :
          recorder' = record_frame(recorder, fetched, now)
    /\ UNCHANGED <<scrollVars, made, fmt, replayVars, ticker>>

\* save_recording(): ValueError without metadata or frames, else the
\* metadata is completed
SaveRecording ==
    /\ recorder.pc = "idle"
    /\ recorder' =
          IF recorder.metadata = <<>> \/ recorder.frames = <<>>
          THEN [recorder EXCEPT !.saved = "ValueError"]
          ELSE [recorder EXCEPT
                   !.metadata = << [recorder.metadata[1] EXCEPT
                                       !.total_frames = Len(recorder.frames)] >>,
                   !.saved = "saved"]
    /\ UNCHANGED <<scrollVars, made, fmt, replayVars, ticker>>

NextRecorder ==
    \/ StartRecording
    \/ LoopRecordFrame
    \/ LoopCheck
    \/ StopRecording
    \/ RecordFrame
    \/ SaveRecording

SpecRecorder == InitRecorder /\ [][NextRecorder]_vars

---------------------------------------------------------------------------
(* NASCARTicker.run_scroll_mode and DemoTicker.run: the render loops around
   the scroll engine.  ticker.pc is the statement the loop is at. *)

\* what NascarAPI.get_live_feed may return: None, or live data
ApiResults == {<<>>, <<[session |-> 1]>>, <<[session |-> 2]>>}

\* build_scroll_content(data) / build_demo_content(): the fragments of the
\* session's line, never without text
build_scroll_content(data) ==
    IF data.session = 1
    THEN <<TextSegment2(<<"A", "B">>, Color_RED)>>
    ELSE <<TextSegment2(<<"A", "B">>, Color_RED),
           TextSegment2(<<"C", "D", "E">>, Color_BLUE)>>

\* seconds between data refreshes a configuration may ask for (milliseconds)
RefreshRates == {3 * ScrollSpeedMs, WaitMs}

\* NASCARTicker.__init__ (mode "scroll") / DemoTicker.__init__ (mode "demo");
\* the display and the loop's window have the same width
NewTicker(mode, width, refresh_rate) ==
    [ pc |-> "init", mode |-> mode,
      running |-> FALSE, width |-> width, refresh_rate |-> refresh_rate,
      last_data |-> <<>>, last_refresh |-> 0, data |-> <<>>, remaining |-> 0,
      k |-> 0, shown |-> <<>>, since_refresh |-> 0, called |-> FALSE ]

\* now - self.last_refresh >= self.config.refresh_rate
refresh_due(self, t) == t - self.last_refresh >= self.refresh_rate

\* fetch_data refreshing on every call
fetch_data_unthrottled(self, t, fetched) ==
    [self EXCEPT !.last_data = fetched, !.last_refresh = t, !.called = TRUE,
                 !.since_refresh = 0]

\* NASCARTicker.fetch_data() at time t, the API giving `fetched` if asked:
\* the state it leaves; it returns last_data
fetch_data(self, t, fetched) ==
    IF refresh_due(self, t)
    THEN [self EXCEPT !.last_data = fetched, !.last_refresh = t,
                      !.called = TRUE, !.since_refresh = 0]
    ELSE [self EXCEPT !.called = FALSE]

\* a scroll cycle running one iteration too long
cycle_length_one_more(self, width) == self.content_width + width + 1

\* range(self.scroller.content_width + self.config.width)
cycle_length(self, width) == self.content_width + width

\* the scroller's call record of a set_content, a window query, a step
CallOf(name, segments, width) == [name |-> name, segments |-> segments, width |-> width]

\* how long a time.sleep(scroll_speed) may take: the time asked for, or more
SleepTimes == {ScrollSpeedMs, 2 * ScrollSpeedMs}

\* the clock is read from time.time(): at the start it is at least a refresh
\* interval away from last_refresh = 0
InitTicker ==
    /\ \E w \in DisplayWidths, mode \in {"scroll", "demo"}, rate \in RefreshRates :
          /\ scroller = ScrollingText(w)
          /\ ticker = NewTicker(mode, w, rate)
    /\ call = NoCall
    /\ ret = ReturnedNone
    /\ steps = 0
    /\ made = NothingMade
    /\ fmt = NothingFormatted
    /\ replay = NoReplay
    /\ rcall = NoRequest
    /\ recorder = NoRecorder
    /\ now = WaitMs

\* NASCARTicker.run() up to the call of run_scroll_mode ("self.running =
\* True"), DemoTicker.run() up to its "while True"
TickerRun ==
    /\ ticker.pc = "init"
    /\ ticker' = [ticker EXCEPT !.running = (ticker.mode = "scroll"),
                                !.pc = IF ticker.mode = "demo" THEN "load"
                                       ELSE "fetch"]
    /\ UNCHANGED <<scrollVars, made, fmt, replayVars, recorder>>

\* run_scroll_mode: "while self.running: data = self.fetch_data(); if data:
\* set_content(build_scroll_content(data)); for _ in range(...)"
TickerFetch ==
    /\ ticker.mode = "scroll" /\ ticker.pc = "fetch"
    /\ IF ~ticker.running
       THEN /\ ticker' = [ticker EXCEPT !.pc = "done"]
            /\ UNCHANGED scrollVars
       ELSE \E fetched \in ApiResults :
              LET t == fetch_data(ticker, now, fetched)
              IN  IF t.last_data # <<>>
                  THEN /\ scroller' = set_content(scroller,
                                          build_scroll_content(t.last_data[1]))
                       /\ call' = CallOf("set_content",
                                         build_scroll_content(t.last_data[1]), 0)
                       /\ ret' = ReturnedNone
                       /\ steps' = 0
                       /\ ticker' = [t EXCEPT
                             !.data = t.last_data,
                             !.remaining = cycle_length(scroller', ticker.width),
                             !.k = 0,
                             !.pc = IF cycle_length(scroller', ticker.width) > 0
                                    THEN "query" ELSE "fetch"]
                  ELSE /\ ticker' = [t EXCEPT !.data = <<>>, !.pc = "wait"]
                       /\ UNCHANGED scrollVars
    /\ UNCHANGED <<made, fmt, replayVars, recorder>>

\* a window query that moves the cursor on before it looks
TickerQuery_steps_first ==
    /\ ticker.mode = "scroll" /\ ticker.pc = "query"
    /\ IF ~ticker.running
       THEN /\ ticker' = [ticker EXCEPT !.pc = "fetch"]
            /\ UNCHANGED scrollVars
       ELSE /\ scroller' = step(scroller)
            /\ ret' = get_visible_segments(scroller', ticker.width)
            /\ call' = CallOf("get_visible_segments", <<>>, ticker.width)
            /\ ticker' = [ticker EXCEPT !.k = @ + 1, !.pc = "emit"]
            /\ UNCHANGED steps
    /\ UNCHANGED <<made, fmt, replayVars, recorder>>

\* run_scroll_mode, start of an iteration: "if not self.running: break;
\* self.display.clear(); visible = self.scroller.get_visible_segments(width)"
TickerQuery ==
    /\ ticker.mode = "scroll" /\ ticker.pc = "query"
    /\ IF ~ticker.running
       THEN /\ ticker' = [ticker EXCEPT !.pc = "fetch"]
            /\ UNCHANGED scrollVars
       ELSE /\ ret' = get_visible_segments(scroller, ticker.width)
            /\ call' = CallOf("get_visible_segments", <<>>, ticker.width)
            /\ ticker' = [ticker EXCEPT !.k = @ + 1, !.pc = "emit"]
            /\ UNCHANGED <<scroller, steps>>
    /\ UNCHANGED <<made, fmt, replayVars, recorder>>

\* "self.display.draw_text(0, 0, visible); self.display.show()"
TickerEmit ==
    /\ ticker.mode = "scroll" /\ ticker.pc = "emit"
    /\ ticker' = [ticker EXCEPT !.shown = ret.value, !.pc = "step"]
    /\ UNCHANGED <<scrollVars, made, fmt, replayVars, recorder>>

\* "self.scroller.step()"
TickerStep ==
    /\ ticker.mode = "scroll" /\ ticker.pc = "step"
    /\ scroller' = step(scroller)
    /\ call' = CallOf("step", <<>>, 0)
    /\ ret' = ReturnedNone
    /\ steps' = Min(steps + 1, MaxSteps)
    /\ ticker' = [ticker EXCEPT !.since_refresh = @ + 1, !.pc = "sleep"]
    /\ UNCHANGED <<made, fmt, replayVars, recorder>>

\* the iteration's end without the look at the refresh clock
TickerSleep_never_breaks ==
    /\ ticker.mode = "scroll" /\ ticker.pc = "sleep"
    /\ now < WaitMs + MaxTickerSleeps * ScrollSpeedMs
    /\ \E d \in SleepTimes :
          /\ now' = now + d
          /\ ticker' = [ticker EXCEPT
                           !.remaining = @ - 1,
                           !.pc = IF ticker.remaining - 1 > 0
                                  THEN "query" ELSE "fetch"]
    /\ UNCHANGED <<scrollVars, made, fmt, replay, rcall, recorder>>

\* "time.sleep(self.config.scroll_speed); if time.time() - self.last_refresh
\* >= self.config.refresh_rate: break", then the next iteration or the end
\* of the for loop
TickerSleep ==
    /\ ticker.mode = "scroll" /\ ticker.pc = "sleep"
    /\ now < WaitMs + MaxTickerSleeps * ScrollSpeedMs
    /\ \E d \in SleepTimes :
          /\ now' = now + d
          /\ ticker' =
                IF refresh_due(ticker, now + d)
                THEN [ticker EXCEPT !.pc = "fetch"]
                ELSE [ticker EXCEPT
                         !.remaining = @ - 1,
                         !.pc = IF ticker.remaining - 1 > 0
                                THEN "query" ELSE "fetch"]
    /\ UNCHANGED <<scrollVars, made, fmt, replay, rcall, recorder>>

\* "print('Waiting for NASCAR live data...'); time.sleep(2)"
TickerWait ==
    /\ ticker.mode = "scroll" /\ ticker.pc = "wait"
    /\ now < WaitMs + MaxTickerSleeps * ScrollSpeedMs
    /\ now' = now + WaitMs
    /\ ticker' = [ticker EXCEPT !.pc = "fetch"]
    /\ UNCHANGED <<scrollVars, made, fmt, replay, rcall, recorder>>

\* NASCARTicker.stop(), at any moment
TickerStop ==
    /\ ticker.mode = "scroll" /\ ticker.pc # "done" /\ ticker.running
    /\ ticker' = [ticker EXCEPT !.running = FALSE]
    /\ UNCHANGED <<scrollVars, made, fmt, replayVars, recorder>>

\* DemoTicker.run: "content = self.build_demo_content();
\* self.scroller.set_content(content); for _ in range(content_width + 120)"
DemoLoad ==
    /\ ticker.mode = "demo" /\ ticker.pc = "load"
    /\ \E built \in ApiResults \ {<<>>} :
          /\ scroller' = set_content(scroller, build_scroll_content(built[1]))
          /\ call' = CallOf("set_content", build_scroll_content(built[1]), 0)
          /\ ticker' = [ticker EXCEPT
                           !.data = built,
                           !.remaining = cycle_length(scroller', ticker.width),
                           !.k = 0, !.since_refresh = 0,
                           !.pc = "query"]
    /\ ret' = ReturnedNone
    /\ steps' = 0
    /\ UNCHANGED <<made, fmt, replayVars, recorder>>

\* DemoTicker.run: "self.display.clear(); visible = get_visible_segments(120)"
DemoQuery ==
    /\ ticker.mode = "demo" /\ ticker.pc = "query"
    /\ ret' = get_visible_segments(scroller, ticker.width)
    /\ call' = CallOf("get_visible_segments", <<>>, ticker.width)
    /\ ticker' = [ticker EXCEPT !.k = @ + 1, !.pc = "emit"]
    /\ UNCHANGED <<scroller, steps, made, fmt, replayVars, recorder>>

\* DemoTicker.run: "self.display.draw_text(0, 0, visible); self.display.show()"
DemoEmit ==
    /\ ticker.mode = "demo" /\ ticker.pc = "emit"
    /\ ticker' = [ticker EXCEPT !.shown = ret.value, !.pc = "step"]
    /\ UNCHANGED <<scrollVars, made, fmt, replayVars, recorder>>

\* DemoTicker.run: "self.scroller.step()"
DemoStep ==
    /\ ticker.mode = "demo" /\ ticker.pc = "step"
    /\ scroller' = step(scroller)
    /\ call' = CallOf("step", <<>>, 0)
    /\ ret' = ReturnedNone
    /\ steps' = Min(steps + 1, MaxSteps)
    /\ ticker' = [ticker EXCEPT !.since_refresh = @ + 1, !.pc = "sleep"]
    /\ UNCHANGED <<made, fmt, replayVars, recorder>>

\* DemoTicker.run: "time.sleep(0.08)", then the next iteration or the end of
\* the for loop
DemoSleep ==
    /\ ticker.mode = "demo" /\ ticker.pc = "sleep"
    /\ now < WaitMs + MaxTickerSleeps * ScrollSpeedMs
    /\ \E d \in SleepTimes :
          /\ now' = now + d
          /\ ticker' = [ticker EXCEPT
                           !.remaining = @ - 1,
                           !.pc = IF ticker.remaining - 1 > 0
                                  THEN "query" ELSE "load"]
    /\ UNCHANGED <<scrollVars, made, fmt, replay, rcall, recorder>>

NextTicker ==
    \/ TickerRun
    \/ TickerFetch
    \/ TickerQuery
    \/ TickerEmit
    \/ TickerStep
    \/ TickerSleep
    \/ TickerWait
    \/ TickerStop
    \/ DemoLoad
    \/ DemoQuery
    \/ DemoEmit
    \/ DemoStep
    \/ DemoSleep

SpecTicker == InitTicker /\ [][NextTicker]_vars

---------------------------------------------------------------------------
(* What the properties below speak about *)

\* the concatenated text of a sequence of fragments
RECURSIVE Flatten(_)
Flatten(segments) ==
    IF segments = <<>> THEN <<>>
    ELSE Head(segments).text \o Flatten(Tail(segments))

CharCount(segments) == Len(Flatten(segments))

L == scroller.total_len

W == scroller.display_width

\* a content is loaded: at least one fragment
Loaded == scroller.segments # <<>>

\* the loaded content has at least one character
HasText == scroller.total_len >= 1

\* the last call was get_visible_segments and it returned a window
Queried == call.name = "get_visible_segments" /\ ret.kind = "value"

\* the virtual timeline: content, separator, content
Timeline == scroller.segments \o <<Separator>> \o scroller.segments

\* the characters of text at offsets [lo, hi), as far as text reaches
Slice(text, lo, hi) ==
    LET K == {k \in 1..Len(text) : lo <= k - 1 /\ k - 1 < hi}
    IN  [j \in 1..Cardinality(K) |-> text[lo + j]]

\* the offset in the timeline of the first character of fragment i
Offset(tl, i) == CharCount(SubSeq(tl, 1, i - 1))

\* what each fragment of tl shows in the window [lo, lo + width), in order
ExpectedClips(tl, lo, width) ==
    LET part(i) == [ text  |-> Slice(tl[i].text, Max(0, lo - Offset(tl, i)),
                                     lo + width - Offset(tl, i)),
                     color |-> tl[i].color,
                     bold  |-> tl[i].bold ]
        shown(f) == f.text # <<>>
    IN  SelectSeq([i \in 1..Len(tl) |-> part(i)], shown)

IsSubstring(t, s) ==
    \E a \in 0..Len(s) : \E b \in a..Len(s) : t = SubSeq(s, a + 1, b)

ClippedFrom(f, src) ==
    IsSubstring(f.text, src.text) /\ f.color = src.color /\ f.bold = src.bold

\* every fragment of out is clipped from a fragment of tl, in the order of tl
RECURSIVE ClippedInOrder(_, _)
ClippedInOrder(out, tl) ==
    IF out = <<>> THEN TRUE
    ELSE IF tl = <<>> THEN FALSE
    ELSE \/ ClippedFrom(Head(out), Head(tl)) /\ ClippedInOrder(Tail(out), Tail(tl))
         \/ ClippedInOrder(out, Tail(tl))

ExampleContent ==
    << [text |-> <<"A", "B">>, color |-> Color_RED, bold |-> FALSE],
       [text |-> <<"C", "D", "E">>, color |-> Color_BLUE, bold |-> FALSE] >>

ExampleWindow ==
    << [text |-> <<"A", "B">>, color |-> Color_RED, bold |-> FALSE],
       [text |-> <<"C", "D">>, color |-> Color_BLUE, bold |-> FALSE] >>

---------------------------------------------------------------------------
(* Properties *)

\* C1 (as stated): for non-empty content, after exactly L + W calls of step()
\* since set_content the position is 0 again.
C1_PeriodIsLPlusW ==
    (HasText /\ steps < MaxSteps /\ steps = L + W) => scroller.position = 0

\* C1 (amended): for non-empty content the cursor first returns to 0 after
\* exactly L + W + 1 calls of step(); after k <= L + W calls it is at k.
C1_PeriodIsLPlusWPlus1 ==
    (Loaded /\ steps < MaxSteps) =>
        /\ steps <= L + W => scroller.position = steps
        /\ steps = L + W + 1 => scroller.position = 0

C1_Witness ==
    /\ Loaded /\ call.name = "step"
    /\ steps < MaxSteps /\ steps = L + W + 1
    /\ scroller.position = 0

\* C2 (as stated): in every reachable state 0 <= position < L + W (checked
\* where a content with at least one character is loaded).
C2_PositionBelowPeriod ==
    HasText =>
        /\ scroller.position \in Int
        /\ 0 <= scroller.position
        /\ scroller.position < L + W

\* C2 (amended): in every reachable state 0 <= position <= L + W; the upper
\* bound is closed.
C2_PositionAtMostPeriod ==
    /\ scroller.position \in Int
    /\ 0 <= scroller.position
    /\ scroller.position <= L + W

C2_Witness == Loaded /\ call.name = "step" /\ scroller.position = L + W

\* C3: step() from p yields p + 1 when p + 1 <= L + W and 0 when p + 1 > L + W,
\* and leaves content, total_length, content_width and the width unchanged.
C3_StepContract ==
    [][ call'.name = "step" =>
          /\ scroller.position + 1 <= L + W =>
                scroller'.position = scroller.position + 1
          /\ scroller.position + 1 > L + W => scroller'.position = 0
          /\ scroller'.segments = scroller.segments
          /\ scroller'.total_len = scroller.total_len
          /\ scroller'.content_width = scroller.content_width
          /\ scroller'.display_width = scroller.display_width ]_vars

C3_Witness ==
    /\ Loaded /\ call.name = "step"
    /\ steps < MaxSteps /\ steps = L + W
    /\ scroller.position = L + W

\* C4: after set_content(content) the position is 0, the stored content is the
\* given sequence, and total_length and content_width are the number of
\* characters of all its fragments.
C4_LoadContract ==
    call.name = "set_content" =>
        /\ scroller.position = 0
        /\ scroller.segments = call.segments
        /\ scroller.total_len = CharCount(call.segments)
        /\ scroller.content_width = CharCount(call.segments)

C4_Witness ==
    /\ call.name = "set_content"
    /\ Len(scroller.segments) = 2
    /\ scroller.total_len = 5

\* C5: after set_content(c), whatever was stepped or queried before, the
\* position is 0 and every window is that of a freshly constructed engine
\* loaded with c.
C5_ReloadAsFresh ==
    call.name = "set_content" =>
        /\ scroller.position = 0
        /\ \A width \in ReqWidths :
              get_visible_segments(scroller, width) =
              get_visible_segments(
                  set_content(ScrollingText(W), call.segments), width)

C5_Witness ==
    /\ call.name = "set_content"
    /\ call.segments = ExampleContent
    /\ get_visible_segments(scroller, 4) = Returned(ExampleWindow)

\* C6: for a requested width >= 0 the fragments returned hold at most that many
\* characters in total.
C6_WindowLengthBound ==
    (Queried /\ call.width >= 0) => CharCount(ret.value) <= call.width

C6_Witness ==
    /\ Queried /\ call.width = 4
    /\ scroller.position > 0
    /\ Len(ret.value) = 3
    /\ CharCount(ret.value) = 4

\* C7 (as stated): for content with at least one character, whenever L + 7 >= the requested
\* width, the window holds exactly that many characters.
C7_FullWindowWhenLPlusSep ==
    (Queried /\ HasText /\ call.width >= 1
        /\ L + Len(Separator.text) >= call.width)
    => CharCount(ret.value) = call.width

\* C7 (amended): for non-empty content, whenever L + 7 >= 2 * width - 1 (the
\* window starts at most at L + width - 1 and the timeline has 2 * L + 7
\* characters), the window holds exactly width characters.
C7_FullWindowWhenTimelineCovers ==
    (Queried /\ Loaded /\ call.width >= 1
        /\ L + Len(Separator.text) >= 2 * call.width - 1)
    => CharCount(ret.value) = call.width

C7_Witness ==
    /\ Queried /\ Loaded /\ call.width >= 1
    /\ L + Len(Separator.text) = 2 * call.width - 1
    /\ (scroller.position % (L + call.width)) + call.width
          > L + Len(Separator.text)
    /\ CharCount(ret.value) = call.width

\* C8 (as stated): for content with at least one character and width > 0 the text of the window
\* is the timeline's characters at offsets [position, position + width).
C8_SliceAtPosition ==
    (Queried /\ HasText /\ call.width > 0) =>
        Flatten(ret.value) =
            Slice(Flatten(Timeline), scroller.position,
                  scroller.position + call.width)

\* C8 (amended): for non-empty content and width > 0 the text of the window is
\* the timeline's characters at offsets [s, s + width), s = position mod
\* (L + width), cut at the end of the timeline.
C8_SliceAtWrappedPosition ==
    (Queried /\ Loaded /\ call.width > 0) =>
        LET s == scroller.position % (L + call.width)
        IN  Flatten(ret.value) = Slice(Flatten(Timeline), s, s + call.width)

C8_Witness ==
    /\ Queried /\ Loaded /\ call.width > 0
    /\ scroller.position >= L + call.width
    /\ scroller.position % (L + call.width) > 0
    /\ Len(ret.value) >= 2
    /\ CharCount(ret.value) = call.width

\* C9: every fragment returned is a contiguous piece of one fragment of the
\* timeline (content or gray non-bold separator) with that fragment's color and
\* bold flag, and the fragments come in timeline order.
C9_StylePreserved ==
    Queried =>
        /\ ClippedInOrder(ret.value, Timeline)
        /\ Separator.color = <<128, 128, 128>> /\ ~Separator.bold

C9_Witness ==
    /\ Queried
    /\ \E i \in 1..Len(ret.value) :
          ret.value[i].bold /\ Len(ret.value[i].text) = 1
    /\ \E i \in 1..Len(ret.value) :
          /\ ret.value[i].color = Separator.color
          /\ Len(ret.value[i].text) < Len(Separator.text)

\* C10 (as stated, for content with at least one character): each fragment contributes exactly its overlap with
\* [position, position + width), fragments outside contribute nothing; and the
\* example content at position 0 with width 4 yields AB red, CD blue.
C10_ClipAtPosition ==
    (Queried /\ HasText /\ call.width > 0) =>
        /\ ret.value = ExpectedClips(Timeline, scroller.position, call.width)
        /\ (scroller.segments = ExampleContent /\ scroller.position = 0
                /\ call.width = 4) => ret.value = ExampleWindow

\* C10 (amended): the same with the window [s, s + width), s = position mod
\* (L + width).
C10_ClipAtWrappedPosition ==
    (Queried /\ Loaded /\ call.width > 0) =>
        /\ ret.value = ExpectedClips(Timeline,
                           scroller.position % (L + call.width), call.width)
        /\ (scroller.segments = ExampleContent /\ scroller.position = 0
                /\ call.width = 4) => ret.value = ExampleWindow

C10_Witness ==
    /\ Queried /\ scroller.segments = ExampleContent
    /\ scroller.position = 0 /\ call.width = 4
    /\ ret.value = ExampleWindow

\* the content without its empty-text fragments
RemoveEmpty(segments) == SelectSeq(segments, LAMBDA f : f.text # <<>>)

\* C11: with no content (none loaded, or the empty sequence loaded) every
\* get_visible_segments call returns the empty sequence and raises nothing,
\* whatever the position and the width, and step() keeps the cursor in 0..W.
C11_EmptyContentEmptyWindow ==
    ~Loaded =>
        /\ call.name = "get_visible_segments" => ret = Returned(<<>>)
        /\ \A width \in ReqWidths :
              get_visible_segments(scroller, width) = Returned(<<>>)
        /\ L = 0
        /\ scroller.position \in 0..W

C11_Witness ==
    /\ ~Loaded /\ call.name = "get_visible_segments"
    /\ call.width = 0
    /\ scroller.position = W
    /\ ret = Returned(<<>>)

\* C12: for a loaded content and a width <= 0, get_visible_segments returns the
\* empty sequence and does not raise.
C12_NonPositiveWidthEmpty ==
    (call.name = "get_visible_segments" /\ Loaded /\ call.width <= 0) =>
        ret = Returned(<<>>)

\* C13 (as stated): no fragment with a color channel outside 0..255 and no
\* display or scroll engine with a negative width comes out of a constructor.
C13_ConstructionValidated ==
    ~made.raised =>
        /\ made.class = "TextSegment" =>
              \A i \in 1..3 : made.object.color[i] \in 0..255
        /\ made.class = "LEDDisplay" => made.object.width >= 0
        /\ made.class = "ScrollingText" => made.object.display_width >= 0

\* the value of one decimal digit character
DigitValue(c) ==
    CASE c = "0" -> 0 [] c = "1" -> 1 [] c = "2" -> 2 [] c = "3" -> 3
      [] c = "4" -> 4 [] c = "5" -> 5 [] c = "6" -> 6 [] c = "7" -> 7
      [] c = "8" -> 8 [] c = "9" -> 9

IsDigits(t) ==
    /\ t # <<>>
    /\ \A i \in 1..Len(t) :
          t[i] \in {"0", "1", "2", "3", "4", "5", "6", "7", "8", "9"}

\* a decimal numeral as Python prints an int >= 0: no leading zero
IsNumeral(t) == IsDigits(t) /\ (Len(t) > 1 => t[1] # "0")

RECURSIVE ParseNat(_)
ParseNat(t) ==
    IF t = <<>> THEN 0
    ELSE 10 * ParseNat(SubSeq(t, 1, Len(t) - 1)) + DigitValue(t[Len(t)])

\* the four rank bands of the ticker
InBand(n, band) ==
    CASE band = 1 -> n = 1
      [] band = 2 -> 2 <= n /\ n <= 3
      [] band = 3 -> 4 <= n /\ n <= 10
      [] band = 4 -> n >= 11

Styled(seg, color, bold) == seg.color = color /\ seg.bold = bold

\* C14: for every rank n >= 1 format_position(n) is the text "P<n>", gold bold
\* for n = 1, green bold for 2..3, white plain for 4..10, gray plain from 11
\* on; every rank is in exactly one band.
C14_PositionBands ==
    (fmt.name = "format_position" /\ fmt.pos >= 1) =>
        /\ Len(fmt.out) = 1
        /\ fmt.out[1].text[1] = "P"
        /\ IsNumeral(Tail(fmt.out[1].text))
        /\ ParseNat(Tail(fmt.out[1].text)) = fmt.pos
        /\ InBand(fmt.pos, 1) => Styled(fmt.out[1], Color_GOLD, TRUE)
        /\ InBand(fmt.pos, 2) => Styled(fmt.out[1], Color_GREEN, TRUE)
        /\ InBand(fmt.pos, 3) => Styled(fmt.out[1], Color_WHITE, FALSE)
        /\ InBand(fmt.pos, 4) => Styled(fmt.out[1], Color_GRAY, FALSE)
        /\ Cardinality({band \in 1..4 : InBand(fmt.pos, band)}) = 1

C14_Witness ==
    /\ fmt.name = "format_position" /\ fmt.pos = 3
    /\ fmt.out = <<TextSegment(<<"P", "3">>, Color_GREEN, TRUE)>>

\* C15: format_gap returns "LEADER" gold bold whenever delta = 0, also for a
\* car with fewer laps than the leader; otherwise "-<N>L" red with
\* N = leader_laps - laps whenever laps < leader_laps, whatever the delta
\* (laps 10, leader 12, delta 2.5 gives "-2L"); only otherwise a numeric gap.
C15_GapPrecedence ==
    fmt.name = "format_gap" =>
        /\ Len(fmt.out) = 1
        /\ fmt.delta = 0 =>
              fmt.out[1] = TextSegment(<<"L", "E", "A", "D", "E", "R">>, Color_GOLD, TRUE)
        /\ (fmt.delta # 0 /\ fmt.laps_completed < fmt.leader_laps) =>
              /\ Styled(fmt.out[1], Color_RED, FALSE)
              /\ Len(fmt.out[1].text) >= 3
              /\ fmt.out[1].text[1] = "-"
              /\ fmt.out[1].text[Len(fmt.out[1].text)] = "L"
              /\ IsNumeral(SubSeq(fmt.out[1].text, 2, Len(fmt.out[1].text) - 1))
              /\ ParseNat(SubSeq(fmt.out[1].text, 2, Len(fmt.out[1].text) - 1))
                    = fmt.leader_laps - fmt.laps_completed
        /\ (fmt.delta # 0 /\ fmt.laps_completed >= fmt.leader_laps) =>
              /\ fmt.out[1].text[1] = "+"
              /\ fmt.out[1].color \in {Color_GREEN, Color_YELLOW, Color_ORANGE}
        /\ (fmt.delta = 2500 /\ fmt.laps_completed = 10 /\ fmt.leader_laps = 12) =>
              fmt.out[1] = TextSegment2(<<"-", "2", "L">>, Color_RED)

C15_Witness ==
    /\ fmt.name = "format_gap"
    /\ fmt.delta = 2500 /\ fmt.laps_completed = 10 /\ fmt.leader_laps = 12
    /\ fmt.out[1].text = <<"-", "2", "L">>

\* the text "+<int>.<decimals digits>" read back, in units of 10^-decimals
GapUnits(text, decimals) ==
    ParseNat(SubSeq(text, 2, Len(text) - decimals - 1)) * Pow10(decimals)
        + ParseNat(SubSeq(text, Len(text) - decimals + 1, Len(text)))

\* text is "+" then a numeral with exactly `decimals` decimals that is the
\* gap g (thousandths) rounded to that many decimals
ShowsGap(text, g, decimals) ==
    /\ Len(text) >= decimals + 3
    /\ text[1] = "+"
    /\ text[Len(text) - decimals] = "."
    /\ IsNumeral(SubSeq(text, 2, Len(text) - decimals - 1))
    /\ IsDigits(SubSeq(text, Len(text) - decimals + 1, Len(text)))
    /\ LET diff == GapUnits(text, decimals) * Pow10(3 - decimals) - g
       IN  2 * diff <= Pow10(3 - decimals) /\ 2 * (0 - diff) <= Pow10(3 - decimals)

\* C16: for a car on the lead lap with gap g > 0 the band comes from the
\* unrounded g: green and 3 decimals below 1, yellow and 2 decimals from 1 to
\* below 5, orange and 1 decimal from 5 on; 0.999 gives "+0.999" green, 1.000
\* "+1.00" yellow, 4.999 "+5.00" yellow and 5.0 "+5.0" orange.
C16_NumericGapBands ==
    (fmt.name = "format_gap" /\ fmt.delta > 0
        /\ fmt.laps_completed >= fmt.leader_laps) =>
        /\ fmt.delta < 1000 =>
              /\ Styled(fmt.out[1], Color_GREEN, FALSE)
              /\ ShowsGap(fmt.out[1].text, fmt.delta, 3)
        /\ (1000 <= fmt.delta /\ fmt.delta < 5000) =>
              /\ Styled(fmt.out[1], Color_YELLOW, FALSE)
              /\ ShowsGap(fmt.out[1].text, fmt.delta, 2)
        /\ fmt.delta >= 5000 =>
              /\ Styled(fmt.out[1], Color_ORANGE, FALSE)
              /\ ShowsGap(fmt.out[1].text, fmt.delta, 1)
        /\ fmt.delta = 999 =>
              fmt.out[1] = TextSegment2(<<"+", "0", ".", "9", "9", "9">>, Color_GREEN)
        /\ fmt.delta = 1000 =>
              fmt.out[1] = TextSegment2(<<"+", "1", ".", "0", "0">>, Color_YELLOW)
        /\ fmt.delta = 4999 =>
              fmt.out[1] = TextSegment2(<<"+", "5", ".", "0", "0">>, Color_YELLOW)
        /\ fmt.delta = 5000 =>
              fmt.out[1] = TextSegment2(<<"+", "5", ".", "0">>, Color_ORANGE)

C16_Witness ==
    /\ fmt.name = "format_gap" /\ fmt.delta = 4999
    /\ fmt.laps_completed >= fmt.leader_laps
    /\ fmt.out[1].text = <<"+", "5", ".", "0", "0">>
    /\ fmt.out[1].color = Color_YELLOW

\* the flag codes that have a label, and the color of each
LabelledFlags == {1, 2, 3, 4, 5, 8, 9}

FlagColor(flag_state) ==
    CASE flag_state = 1 -> Color_GREEN
      [] flag_state = 2 -> Color_NASCAR_YELLOW
      [] flag_state = 3 -> Color_RED
      [] flag_state \in {4, 5} -> Color_WHITE
      [] flag_state = 8 -> Color_ORANGE
      [] flag_state = 9 -> Color_CYAN

\* C17: for every flag code format_flag returns either the empty sequence
\* (codes 0, 6, 7 and every code outside the table) or exactly three
\* fragments: gray " [", the non-empty label bold in the flag's color, and
\* gray "] "; it never returns an empty bracket.
C17_NoEmptyBracket ==
    fmt.name = "format_flag" =>
        IF fmt.flag_state \in LabelledFlags
        THEN /\ Len(fmt.out) = 3
             /\ fmt.out[1] = TextSegment2(<<" ", "[">>, Color_GRAY)
             /\ fmt.out[2].text # <<>>
             /\ Styled(fmt.out[2], FlagColor(fmt.flag_state), TRUE)
             /\ fmt.out[3] = TextSegment2(<<"]", " ">>, Color_GRAY)
        ELSE fmt.out = <<>>

C17_Witness ==
    /\ fmt.name = "format_flag" /\ fmt.flag_state = 6
    /\ fmt.out = <<>>

\* C18: for width > 0 no returned fragment has empty text, and the
\* window is that of the same content without its empty-text fragments, also
\* when every fragment is empty.
C18_EmptyFragmentsVanish ==
    (Queried /\ call.width > 0) =>
        /\ \A i \in 1..Len(ret.value) : ret.value[i].text # <<>>
        /\ ret = get_visible_segments(
               [scroller EXCEPT !.segments = RemoveEmpty(scroller.segments)],
               call.width)

\* C19 (as stated): after the handler of GET /replay/play has run, from any
\* playback state, the ReplayState is playing (is_playing and not is_paused)
\* and a live-feed request is served a frame.
C19_PlayMakesPlaying ==
    rcall.name = "_handle_play" =>
        /\ replay.is_playing
        /\ ~replay.is_paused
        /\ ReplayState_get_current_frame(replay, now).ret.kind = "value"

\* whole frame intervals elapsed since last_frame_time
Due == ((now - replay.last_frame_time) * replay.playback_speed) \div DefaultIntervalMs

\* this get_current_frame call moves current_frame to or past len(frames)
ReachesEnd ==
    /\ replay.is_playing /\ ~replay.is_paused
    /\ Due > 0
    /\ replay.current_frame + Due >= Len(replay.frames)

\* C20: when get_current_frame advances current_frame to or past len(frames),
\* then with loop on current_frame becomes 0 and playback stays playing, and
\* with loop off current_frame becomes len(frames) - 1, that last frame is
\* returned and is_playing becomes false; while not playing get_current_frame
\* returns None and changes nothing, and only start() makes it playing again.
C20_EndOfRecording ==
    [][ /\ (HandleLiveFeed /\ ReachesEnd /\ replay.loop) =>
              /\ replay'.current_frame = 0
              /\ replay'.is_playing
              /\ rcall'.kind = "json"
        /\ (HandleLiveFeed /\ ReachesEnd /\ ~replay.loop) =>
              /\ replay'.current_frame = Len(replay.frames) - 1
              /\ rcall'.kind = "json"
              /\ rcall'.frame = <<replay.frames[Len(replay.frames)]>>
              /\ ~replay'.is_playing
        /\ (HandleLiveFeed /\ ~replay.is_playing) =>
              /\ rcall'.kind = "error"
              /\ rcall'.frame = <<>>
              /\ replay' = replay
        /\ (~replay.is_playing /\ replay'.is_playing) =>
              /\ rcall'.name = "_handle_play"
              /\ replay' = ReplayState_start(replay, now)
      ]_vars

C20_Witness ==
    /\ rcall.name = "_handle_live_feed" /\ rcall.kind = "json"
    /\ Len(replay.frames) >= 2
    /\ ~replay.loop
    /\ ~replay.is_playing
    /\ replay.current_frame = Len(replay.frames) - 1
    /\ rcall.frame = <<replay.frames[Len(replay.frames)]>>

\* C25: get_visible_segments(width) leaves position, the stored content and
\* total_length as they were, and a call that follows another call with the
\* same width, with no step or set_content in between, returns the same.
C25_QueryReadOnly ==
    [][ call'.name = "get_visible_segments" =>
            /\ scroller' = scroller
            /\ steps' = steps
            /\ (call.name = "get_visible_segments" /\ call.width = call'.width) =>
                  ret' = ret
            /\ ret' = get_visible_segments(scroller', call'.width)
      ]_vars

C25_Witness ==
    /\ Queried /\ HasText
    /\ scroller.position >= 2
    /\ Len(ret.value) >= 2
    /\ ret = get_visible_segments(scroller, call.width)

\* C26: for a non-empty content, at position total_length + viewport_width
\* (the last value before step wraps) a query of the viewport's width returns
\* exactly the window of position 0.
C26_DuplicateFrameAtBoundary ==
    (Loaded /\ scroller.position = L + W) =>
        /\ get_visible_segments(scroller, W)
              = get_visible_segments([scroller EXCEPT !.position = 0], W)
        /\ (call.name = "get_visible_segments" /\ call.width = W) =>
              ret = get_visible_segments([scroller EXCEPT !.position = 0], W)

C26_Witness ==
    /\ Queried /\ HasText
    /\ call.width = W
    /\ scroller.position = L + W
    /\ ret.value # <<>>
    /\ ret = get_visible_segments([scroller EXCEPT !.position = 0], W)

\* C27: after any sequence of start, pause, resume, stop, seek, seek_percent,
\* seek_lap and get_current_frame calls, with any arguments and any elapsed
\* time, 0 <= current_frame <= len(frames) - 1.
C27_FrameIndexInRange ==
    /\ replay.current_frame >= 0
    /\ replay.current_frame <= Len(replay.frames) - 1
    /\ replay.current_frame + 1 \in DOMAIN replay.frames

C27_Witness ==
    /\ rcall.name = "_handle_seek"
    /\ Len(replay.frames) >= 2
    /\ replay.current_frame = Len(replay.frames) - 1
    /\ replay.is_playing /\ ~replay.is_paused
    /\ now - replay.last_frame_time >= DefaultIntervalMs

\* C28: while the ReplayState is playing and paused, get_current_frame returns
\* frames[current_frame] and leaves the state as it was, however much time
\* has passed; the frame changes only by a seek or a stop.
C28_PauseFreezes ==
    [][ (replay.is_playing /\ replay.is_paused) =>
            /\ HandleLiveFeed =>
                  /\ replay' = replay
                  /\ rcall'.kind = "json"
                  /\ rcall'.frame = <<replay.frames[replay.current_frame + 1]>>
            /\ replay'.current_frame # replay.current_frame =>
                  rcall'.name \in {"_handle_seek", "_handle_stop"}
      ]_vars

C28_Witness ==
    /\ rcall.name = "_handle_live_feed" /\ rcall.kind = "json"
    /\ replay.is_playing /\ replay.is_paused
    /\ Len(replay.frames) >= 2
    /\ now - replay.last_frame_time >= 2 * DefaultIntervalMs
    /\ rcall.frame = <<replay.frames[replay.current_frame + 1]>>

\* C21: when start_recording is given max_frames = N, the number of recorded
\* frames never exceeds N during the recording loop, and the loop is left as
\* soon as frame_count reaches N.
C21_FrameLimit ==
    (recorder.pc \in {"record", "check"} /\ recorder.max_frames # <<>>
        /\ recorder.max_frames[1] >= 0) =>
        /\ Len(recorder.frames) <= recorder.max_frames[1]
        /\ (recorder.pc = "record" /\ recorder.frames # <<>>) =>
              recorder.frame_count < recorder.max_frames[1]

\* the recorder's frames are numbered 0, 1, 2, ... and counted
FramesNumbered ==
    /\ recorder.frame_count = Len(recorder.frames)
    /\ \A i \in 1..Len(recorder.frames) : recorder.frames[i].frame_number = i - 1
    /\ recorder.frames # <<>> => recorder.metadata # <<>>

\* C29: after any sequence of start_recording and record_frame calls
\* frame_count = len(frames), the i-th frame has frame_number i (from 0), and
\* metadata is set whenever frames is non-empty; a record_frame call whose
\* live feed is missing returns None and leaves frames, frame_count and
\* metadata as they were, and a successful one appends exactly one frame.
C29_FrameNumbering ==
    [][ /\ FramesNumbered'
        /\ ((LoopRecordFrame /\ recorder.running) \/ RecordFrame) =>
              \/ /\ recorder'.ret = <<>>
                 /\ recorder'.frames = recorder.frames
                 /\ recorder'.frame_count = recorder.frame_count
                 /\ recorder'.metadata = recorder.metadata
              \/ /\ recorder'.ret # <<>>
                 /\ recorder'.frames = Append(recorder.frames, recorder'.ret[1])
                 /\ recorder'.ret[1].frame_number = recorder.frame_count
                 /\ recorder'.frame_count = recorder.frame_count + 1
        /\ (SaveRecording /\ recorder.frames # <<>>) => recorder'.saved = "saved"
      ]_vars

C29_Witness ==
    /\ Len(recorder.frames) = 2
    /\ recorder.ret = <<>>
    /\ recorder.frames[2].frame_number = 1
    /\ recorder.frame_count = 2
    /\ recorder.metadata # <<>>

\* C30: fetch_data asks the API only when at least refresh_rate has passed
\* since the previous refresh attempt, and then keeps what the API gave, a
\* failure (None) included, as last_data; otherwise it leaves last_data and
\* last_refresh alone.  What it returns is always last_data.
C30_RefreshThrottled ==
    [][ (TickerFetch /\ ticker.running) =>
           /\ ticker'.data = ticker'.last_data
           /\ IF now - ticker.last_refresh >= ticker.refresh_rate
              THEN /\ ticker'.called
                   /\ ticker'.last_refresh = now
                   /\ ticker'.last_data \in ApiResults
              ELSE /\ ~ticker'.called
                   /\ ticker'.last_data = ticker.last_data
                   /\ ticker'.last_refresh = ticker.last_refresh ]_vars

\* a failed refresh has replaced data that had been shown before
C30_Witness ==
    /\ ticker.mode = "scroll" /\ ticker.pc = "wait"
    /\ ticker.called /\ ticker.last_data = <<>> /\ ticker.data = <<>>
    /\ ticker.shown # <<>>
    /\ ticker.last_refresh = now

\* C22: an iteration of the render loop (scroll mode and demo) asks for the
\* window, emits it, steps, sleeps, in this order; the k-th window emitted in
\* a cycle is the window at position k - 1, the first one the window at 0.
C22_TickOrder ==
    [][ /\ (ticker.pc = "query" /\ ticker'.pc # "query") =>
              \/ /\ ticker'.pc = "emit"
                 /\ ret' = get_visible_segments(scroller, ticker.width)
                 /\ scroller' = scroller
              \/ /\ ticker.mode = "scroll" /\ ~ticker.running
                 /\ ticker'.pc = "fetch"
        /\ (ticker.pc = "emit" /\ ticker'.pc # "emit") =>
              /\ ticker'.pc = "step"
              /\ ticker'.shown = ret.value
              /\ scroller' = scroller
        /\ (ticker.pc = "step" /\ ticker'.pc # "step") =>
              /\ ticker'.pc = "sleep"
              /\ scroller' = step(scroller)
              /\ ticker'.shown = ticker.shown
        /\ (ticker.pc = "sleep" /\ ticker'.pc # "sleep") =>
              /\ now' > now
              /\ ticker'.pc \in {"query", "fetch", "load"}
              /\ scroller' = scroller
        /\ ticker'.pc = "step" =>
              /\ ticker'.k >= 1
              /\ scroller'.position = ticker'.k - 1
              /\ ticker'.shown =
                    get_visible_segments(
                        [scroller' EXCEPT !.position = ticker'.k - 1],
                        ticker'.width).value ]_vars

\* the third window of a demo cycle has been emitted, from position 2
C22_Witness ==
    /\ ticker.mode = "demo" /\ ticker.pc = "step"
    /\ ticker.k = 3 /\ scroller.position = 2
    /\ ticker.shown = ret.value /\ ticker.shown # <<>>

\* C23: in run_scroll_mode the content is only loaded between cycles, a cycle
\* has at most content_width + width iterations, every window query is at a
\* position in 0 .. L + W - 1, and a step of the loop never wraps to 0.
C23_LoadBetweenCycles ==
    [][ ticker.mode = "scroll" =>
          /\ ticker.pc # "fetch" =>
                /\ scroller'.segments = scroller.segments
                /\ scroller'.position >= scroller.position
                /\ call'.name = "set_content" => call' = call /\ scroller' = scroller
          /\ ticker'.k <= scroller'.content_width + ticker'.width
          /\ ticker'.pc = "emit" =>
                /\ scroller'.position >= 0
                /\ scroller'.position <=
                      scroller'.total_len + scroller'.display_width - 1
          /\ (ticker.pc = "step" /\ ticker'.pc = "sleep") =>
                scroller'.position = scroller.position + 1 ]_vars

\* a full cycle has run: the last iteration has stepped to L + W
C23_Witness ==
    /\ ticker.mode = "scroll" /\ ticker.pc = "sleep"
    /\ ticker.remaining = 1
    /\ ticker.k = scroller.content_width + ticker.width
    /\ scroller.position = scroller.total_len + scroller.display_width

\* C24: in run_scroll_mode, once refresh_rate has passed since the last
\* refresh when an iteration's sleep is over, the cycle is left, the data is
\* fetched anew and, if there is data, set_content puts the position back to
\* 0; the position at a window query is at most the number of steps taken
\* since the last refresh.
C24_MidScrollRefresh ==
    [][ ticker.mode = "scroll" =>
          /\ (ticker.pc = "sleep" /\ ticker'.pc # "sleep"
                /\ now' - ticker.last_refresh >= ticker.refresh_rate) =>
                /\ ticker'.pc = "fetch"
                /\ ticker'.remaining = ticker.remaining
          /\ (ticker.pc = "fetch" /\ ticker.running /\ ticker'.pc # "fetch"
                /\ now - ticker.last_refresh >= ticker.refresh_rate) =>
                /\ ticker'.called
                /\ ticker'.since_refresh = 0
                /\ ticker'.last_data # <<>> =>
                      /\ call'.name = "set_content"
                      /\ scroller'.position = 0
          /\ ticker'.pc = "emit" =>
                scroller'.position <= ticker'.since_refresh ]_vars

\* a cycle was left before its end for a refresh, and the new cycle shows its
\* first window
C24_Witness ==
    /\ ticker.mode = "scroll" /\ ticker.pc = "emit"
    /\ ticker.called /\ ticker.k = 1
    /\ scroller.position = 0 /\ ticker.since_refresh = 0
    /\ ticker.shown # <<>>
    /\ ticker.shown # get_visible_segments(
                          [scroller EXCEPT !.position =
                              scroller.total_len + scroller.display_width - 1],
                          ticker.width).value
    /\ ticker.last_refresh > WaitMs
    /\ ticker.last_refresh - WaitMs <
          ScrollSpeedMs * (scroller.content_width + ticker.width)

============================================================================
